---- MODULE Spec2Model ----
(***************************************************************************)
(* Residential relocation on a grid: housing units whose locational        *)
(* quality follows the incomes around them, and households (Resident,      *)
(* Immigrant) that compute a utility, adapt a happiness threshold and      *)
(* relocate (src/agents.py).                                               *)
(*                                                                         *)
(* Numbers are exact rationals <<numerator, denominator>> (denominator     *)
(* > 0, lowest terms).  The grid is the mesa MultiGrid used by agents.py:  *)
(* each cell holds the list of agents standing on it, in placement order.  *)
(***************************************************************************)
EXTENDS Integers, Sequences, FiniteSets, TLC

\* ---------------------------------------------------------------- bounds
Width == 3
Height == 1
MaxTicks == 4
MaxResidents == 2
MaxImmigrants == 2
MaxOps == 2
MaxUpdates == 4

\* ------------------------------------------------------------- constants
\* agents.py:125  "self.failed_move_attempts >= 4"
SlumLimit == 4

\* ------------------------------------------------------------- rationals
RECURSIVE GCD(_, _)
GCD(a, b) == IF b = 0 THEN a ELSE GCD(b, a % b)

Abs(n) == IF n < 0 THEN -n ELSE n

Norm(n, d) ==
    LET g == GCD(Abs(n), d)
    IN  IF n = 0 THEN <<0, 1>> ELSE <<n \div g, d \div g>>

OfInt(n) == <<n, 1>>
Zero == <<0, 1>>
One == <<1, 1>>

\* Sums over the least common denominator, so that no intermediate value is
\* larger than the result needs.
RAdd(a, b) ==
    LET g == GCD(a[2], b[2])
    IN  Norm(a[1] * (b[2] \div g) + b[1] * (a[2] \div g),
             (a[2] \div g) * b[2])
RNeg(a) == <<-a[1], a[2]>>
RSub(a, b) == RAdd(a, RNeg(b))
RMul(a, b) ==
    LET g1 == GCD(Abs(a[1]), b[2])
        g2 == GCD(Abs(b[1]), a[2])
    IN  IF a[1] = 0 \/ b[1] = 0 THEN <<0, 1>>
        ELSE <<(a[1] \div g1) * (b[1] \div g2),
               (a[2] \div g2) * (b[2] \div g1)>>

\* n1/d1 < n2/d2 by comparing the integer parts and then the reciprocals of
\* the fractional parts (no product of a numerator and a denominator).
RECURSIVE FracLt(_, _, _, _)
FracLt(n1, d1, n2, d2) ==
    LET q1 == n1 \div d1
        q2 == n2 \div d2
        r1 == n1 % d1
        r2 == n2 % d2
    IN  IF q1 # q2 THEN q1 < q2
        ELSE IF r2 = 0 THEN FALSE
        ELSE IF r1 = 0 THEN TRUE
        ELSE FracLt(d2, r2, d1, r1)

RLt(a, b) == FracLt(a[1], a[2], b[1], b[2])
RLe(a, b) == ~RLt(b, a)

\* The result of a Python division that raised ZeroDivisionError.
DivError == <<0, 0>>

\* Python's a / b for b >= 0: raises on b = 0.
PyDiv(a, b) ==
    IF b[1] = 0 THEN DivError ELSE Norm(a[1] * b[2], a[2] * b[1])

\* --------------------------------------------------------------- the grid
Cells == (0 .. Width - 1) \X (0 .. Height - 1)

\* "for x in range(width): for y in range(height)": the scan order of cells.
CellIndex(c) == c[1] * Height + c[2] + 1
ScanOrder == [k \in 1 .. Width * Height |->
                 CHOOSE c \in Cells : CellIndex(c) = k]

NoCell == <<-1, -1>>

\* Agents are named by class and identifier; a House and an UrbanSlum carry
\* the index of the cell they were created on, a household its slot.
HouseAgent(c) == [kind |-> "House", id |-> CellIndex(c)]
SlumAgent(c) == [kind |-> "Slum", id |-> CellIndex(c)]
HouseholdAgent(k, i) == [kind |-> k, id |-> i]

\* isinstance(agent, Resident): Immigrant is a subclass of Resident.
IsResident(a) == a.kind \in {"Resident", "Immigrant"}
IsHouse(a) == a.kind = "House"

Range(s) == {s[k] : k \in 1 .. Len(s)}

\* grid.get_neighbors(pos, moore=True, include_center=False, radius=1) on a
\* grid that does not wrap: every agent on the up to 8 surrounding cells.
Neighborhood(c) ==
    {d \in Cells : d # c /\ Abs(d[1] - c[1]) <= 1 /\ Abs(d[2] - c[2]) <= 1}

get_neighbors(w, c) ==
    UNION {Range(w.grid[d]) : d \in Neighborhood(c)}

RECURSIVE SumIncome(_, _)
SumIncome(w, S) ==
    IF S = {} THEN 0
    ELSE LET a == CHOOSE x \in S : TRUE
         IN  w.hh[a.id].income + SumIncome(w, S \ {a})

\* np.mean(incomes)
Mean(w, S) == Norm(SumIncome(w, S), Cardinality(S))

\* House.step of the house created on cell c (a house never moves).
HouseStepResetsWhenAlone(w, c) ==
    LET neighbors == get_neighbors(w, c)
        incomes == {a \in neighbors : IsResident(a)}
    IN  [w EXCEPT !.quality[CellIndex(c)] =
            IF incomes # {} THEN Mean(w, incomes) ELSE Zero]

HouseStepReadsUnits(w, c) ==
    LET neighbors == get_neighbors(w, c)
        incomes == {a \in neighbors : IsResident(a)}
        units == {a \in neighbors : IsHouse(a)}
    IN  IF incomes # {}
        THEN [w EXCEPT !.quality[CellIndex(c)] =
                 IF units = {} THEN Mean(w, incomes)
                 ELSE RAdd(Mean(w, incomes),
                           w.quality[(CHOOSE a \in units :
                                        \A b \in units : a.id <= b.id).id])]
        ELSE w

HouseStep(w, c) ==
    LET neighbors == get_neighbors(w, c)
        incomes == {a \in neighbors : IsResident(a)}
    IN  IF incomes # {}
        THEN [w EXCEPT !.quality[CellIndex(c)] = Mean(w, incomes)]
        ELSE w

\* ------------------------------------------------------------ households
\* Resident.update_happiness_status
update_happiness_status(w, i) ==
    [w EXCEPT !.hh[i].is_unhappy =
        RLt(w.hh[i].last_utility, w.hh[i].happiness_threshold)]

\* 0.15
Alpha == <<3, 20>>

\* "happiness_threshold += 0.15 * (1 - happiness_threshold)" and its "-=" twin
ThresholdUpByConstant(h) == RAdd(h, Alpha)
ThresholdUp(h) == RAdd(h, RMul(Alpha, RSub(One, h)))
ThresholdDown(h) == RSub(h, RMul(Alpha, RSub(One, h)))

\* Resident.update_happiness
update_happiness(w, i, total_utility) ==
    LET me == w.hh[i]
        h == IF RLt(me.last_utility, total_utility)
               THEN ThresholdUp(me.happiness_threshold)
             ELSE IF RLt(total_utility, me.last_utility)
               THEN ThresholdDown(me.happiness_threshold)
             ELSE me.happiness_threshold
        w1 == [w EXCEPT !.hh[i].happiness_threshold = h,
                        !.hh[i].last_utility = total_utility]
    IN  update_happiness_status(w1, i)

RECURSIVE MinQuality(_, _)
MinQuality(w, S) ==
    LET a == CHOOSE x \in S : TRUE
        q == w.quality[a.id]
    IN  IF S = {a} THEN q
        ELSE LET m == MinQuality(w, S \ {a})
             IN  IF RLt(q, m) THEN q ELSE m

RECURSIVE MaxQuality(_, _)
MaxQuality(w, S) ==
    LET a == CHOOSE x \in S : TRUE
        q == w.quality[a.id]
    IN  IF S = {a} THEN q
        ELSE LET m == MaxQuality(w, S \ {a})
             IN  IF RLt(m, q) THEN q ELSE m

\* "locational_quality / max_locational_quality if max_locational_quality > 0
\*  else 0"
CappedQualityUnguarded(locational_quality, max_locational_quality) ==
    PyDiv(locational_quality, max_locational_quality)

CappedQuality(locational_quality, max_locational_quality) ==
    IF RLt(Zero, max_locational_quality)
    THEN PyDiv(locational_quality, max_locational_quality)
    ELSE Zero

\* "len(in_group_neighbors) / len(neighbors) if neighbors else 0": neighbors
\* holds every agent around the cell, housing units and slums included.
InGroupInfluence(w, i) ==
    LET me == w.hh[i]
        neighbors == get_neighbors(w, me.pos)
        in_group_neighbors == {a \in neighbors : a.kind = me.kind}
    IN  IF neighbors # {}
        THEN Norm(Cardinality(in_group_neighbors), Cardinality(neighbors))
        ELSE Zero

\* The locational_quality read from "get_cell_list_contents([pos])[0]": the
\* first agent of the cell; a household has no such attribute.
FirstQuality(w, pos) ==
    LET first == w.grid[pos][1]
    IN  IF first.kind = "House" THEN w.quality[first.id] ELSE Zero

FirstHasQuality(w, pos) ==
    Len(w.grid[pos]) > 0 /\ ~IsResident(w.grid[pos][1])

\* Resident.calculate_utilities.  w.capped keeps the normalized quality the
\* last call used.
calculate_utilities(w, i) ==
    LET me == w.hh[i]
        houses == {a \in w.schedule : IsHouse(a)}
    IN  IF w.error # "none" THEN w
        ELSE IF ~FirstHasQuality(w, me.pos)
          THEN [w EXCEPT !.error = "AttributeError"]
        ELSE IF houses = {}
          THEN [w EXCEPT !.error = "ValueError"]
        ELSE
          LET locational_quality == FirstQuality(w, me.pos)
              capped_quality ==
                  CappedQuality(locational_quality, MaxQuality(w, houses))
              in_group_influence == InGroupInfluence(w, i)
              utility ==
                  IF me.kind = "Immigrant"
                  THEN RAdd(RMul(w.preference, capped_quality),
                            RMul(RSub(One, w.preference), in_group_influence))
                  ELSE RMul(w.preference, capped_quality)
          IN  IF capped_quality = DivError
              THEN [w EXCEPT !.error = "ZeroDivisionError"]
              ELSE update_happiness(
                      [w EXCEPT !.hh[i].utility = utility,
                                !.capped = capped_quality],
                      i, utility)
\* ------------------------------------------------------ relocation search
\* "house = next((agent ... if isinstance(agent, House)), None)"
HasHouse(w, c) == \E a \in Range(w.grid[c]) : IsHouse(a)
CellHouse(w, c) == CHOOSE a \in Range(w.grid[c]) : IsHouse(a)
\* "has_resident = any(isinstance(agent, Resident) ...)"
has_resident(w, c) == \E a \in Range(w.grid[c]) : IsResident(a)

\* "if house and not has_resident"
IsCandidate(w, c) == HasHouse(w, c) /\ ~has_resident(w, c)

HouseQuality(w, c) == w.quality[CellHouse(w, c).id]

\* "random_quality = locational_quality + uniform(-0.1, 0.1) * income" and
\* the test "random_quality < income", over the draws u in [-0.1, 0.1):
\* some draw passes iff quality - 0.1 * income < income, and every draw
\* passes iff quality + 0.1 * income <= income.
JitterRange == <<1, 10>>
CanPass(q, income) ==
    RLt(RSub(q, RMul(JitterRange, OfInt(income))), OfInt(income))
MustPass(q, income) ==
    RLe(RAdd(q, RMul(JitterRange, OfInt(income))), OfInt(income))

\* The outcomes of the test on every candidate cell that the draws of one
\* call can produce (FALSE on the cells the scan skips).
JitterOutcomes(w, i) ==
    {jit \in [Cells -> BOOLEAN] :
        \A c \in Cells :
            IF IsCandidate(w, c)
            THEN /\ jit[c] => CanPass(HouseQuality(w, c), w.hh[i].income)
                 /\ ~jit[c] => ~MustPass(HouseQuality(w, c), w.hh[i].income)
            ELSE ~jit[c]}

\* The scan of the first k cells: <<best_position, best_quality>>, with
\* best_quality = -inf while best_position is None.
RECURSIVE Scan(_, _, _, _)
Scan(w, i, jit, k) ==
    IF k = 0 THEN <<NoCell, Zero>>
    ELSE LET prev == Scan(w, i, jit, k - 1)
             pos == ScanOrder[k]
         IN  IF /\ IsCandidate(w, pos)
                /\ (prev[1] = NoCell \/ RLt(prev[2], HouseQuality(w, pos)))
                /\ jit[pos]
             THEN <<pos, HouseQuality(w, pos)>>
             ELSE prev

\* "quality_threshold * 0.8"
FallbackFactor == <<4, 5>>

\* potential_positions, in scan order
potential_positions_above_income(w, i) ==
    SelectSeq(ScanOrder,
        LAMBDA pos :
            /\ IsCandidate(w, pos)
            /\ RLt(OfInt(w.hh[i].income), HouseQuality(w, pos)))

potential_positions(w, i) ==
    SelectSeq(ScanOrder,
        LAMBDA pos :
            /\ IsCandidate(w, pos)
            /\ RLe(RMul(FallbackFactor, OfInt(w.hh[i].income)),
                   HouseQuality(w, pos)))

\* Resident.find_new_house; jit are the outcomes of the jitter tests and
\* pick the index random.choice draws.
find_new_house_first_fit(w, i, jit, pick) ==
    LET passing == SelectSeq(ScanOrder, LAMBDA pos : jit[pos])
        potential == potential_positions(w, i)
    IN  IF passing # <<>> THEN passing[1]
        ELSE IF potential # <<>> THEN potential[pick]
        ELSE NoCell

find_new_house_no_fallback(w, i, jit, pick) ==
    Scan(w, i, jit, Width * Height)[1]

find_new_house_occupied_fallback(w, i, jit, pick) ==
    LET best_position == Scan(w, i, jit, Width * Height)[1]
        potential == SelectSeq(ScanOrder,
            LAMBDA pos :
                /\ HasHouse(w, pos)
                /\ RLe(RMul(FallbackFactor, OfInt(w.hh[i].income)),
                       HouseQuality(w, pos)))
    IN  IF best_position = NoCell /\ potential # <<>>
        THEN potential[IF pick <= Len(potential) THEN pick ELSE 1]
        ELSE best_position

find_new_house_ignores_households(w, i, jit, pick) ==
    LET houses == {c \in Cells : HasHouse(w, c) /\ c # w.hh[i].pos}
    IN  IF houses = {} THEN NoCell
        ELSE CHOOSE c \in houses :
                \A d \in houses :
                    \/ RLt(HouseQuality(w, d), HouseQuality(w, c))
                    \/ /\ HouseQuality(w, d) = HouseQuality(w, c)
                       /\ CellIndex(c) <= CellIndex(d)

find_new_house(w, i, jit, pick) ==
    LET best_position == Scan(w, i, jit, Width * Height)[1]
        potential == potential_positions(w, i)
    IN  IF best_position = NoCell /\ potential # <<>>
        THEN potential[pick]
        ELSE best_position

\* The indices random.choice can draw in this call (1 when it is not called).
PickChoices(w, i, jit) ==
    IF Scan(w, i, jit, Width * Height)[1] = NoCell
       /\ potential_positions(w, i) # <<>>
    THEN 1 .. Len(potential_positions(w, i))
    ELSE {1}

\* ------------------------------------------------------ moving, conversion
Without(s, a) == SelectSeq(s, LAMBDA x : x # a)

\* grid.move_agent(agent, pos)
move_agent(w, i, pos) ==
    LET a == HouseholdAgent(w.hh[i].kind, i)
        old == w.hh[i].pos
        g1 == [w.grid EXCEPT ![old] = Without(@, a)]
    IN  [w EXCEPT !.grid = [g1 EXCEPT ![pos] = Append(@, a)],
                  !.hh[i].pos = pos]

\* Resident.convert_to_slum
convert_to_slum_keep_house(w, i) ==
    LET pos == w.hh[i].pos
    IN  [w EXCEPT !.grid[pos] = Append(@, SlumAgent(pos)),
                  !.schedule = @ \ {HouseholdAgent(w.hh[i].kind, i)}]

convert_to_slum_keeps_quality(w, i) ==
    LET pos == w.hh[i].pos
        w1 == IF HasHouse(w, pos)
              THEN [w EXCEPT !.schedule = @ \ {CellHouse(w, pos)},
                             !.grid[pos] = Without(@, CellHouse(w, pos))]
              ELSE w
    IN  [w1 EXCEPT !.grid[pos] = Append(@, SlumAgent(pos)),
                   !.schedule = @ \ {HouseholdAgent(w.hh[i].kind, i)}]

\* The UrbanSlum takes the quality slot of the cell whose House it replaces:
\* UrbanSlum.__init__ sets locational_quality = 0.
convert_to_slum(w, i) ==
    LET pos == w.hh[i].pos
        w1 == IF HasHouse(w, pos)
              THEN [w EXCEPT !.schedule = @ \ {CellHouse(w, pos)},
                             !.grid[pos] = Without(@, CellHouse(w, pos))]
              ELSE w
    IN  [w1 EXCEPT !.grid[pos] = Append(@, SlumAgent(pos)),
                   !.quality[CellIndex(pos)] = Zero,
                   !.schedule = @ \ {HouseholdAgent(w.hh[i].kind, i)}]
\* ------------------------------------------------------------ the step
\* Resident.decide_to_move.  w.searched and w.new_position keep whether the
\* call searched and what find_new_house returned.
decide_to_move_counts_every_search(w, i, jit, pick) ==
    LET me == w.hh[i]
    IN  IF w.error # "none" THEN w
        ELSE IF ~FirstHasQuality(w, me.pos)
          THEN [w EXCEPT !.error = "AttributeError"]
        ELSE IF RLt(FirstQuality(w, me.pos), OfInt(me.income))
          THEN
            LET new_position == find_new_house(w, i, jit, pick)
                ws == [w EXCEPT !.searched = TRUE,
                                !.new_position = new_position,
                                !.hh[i].failed_move_attempts = @ + 1]
                w1 == IF new_position # NoCell
                      THEN [move_agent(ws, i, new_position) EXCEPT
                               !.hh[i].moved_this_step = TRUE]
                      ELSE
                        IF /\ me.kind = "Immigrant"
                           /\ ws.hh[i].failed_move_attempts >= SlumLimit
                        THEN convert_to_slum(ws, i)
                        ELSE ws
            IN  [w1 EXCEPT !.hh[i].is_unhappy = TRUE]
        ELSE [w EXCEPT !.hh[i].moved_this_step = FALSE,
                       !.hh[i].is_unhappy = FALSE]

decide_to_move_converts_any_household(w, i, jit, pick) ==
    LET me == w.hh[i]
    IN  IF w.error # "none" THEN w
        ELSE IF ~FirstHasQuality(w, me.pos)
          THEN [w EXCEPT !.error = "AttributeError"]
        ELSE IF RLt(FirstQuality(w, me.pos), OfInt(me.income))
          THEN
            LET new_position == find_new_house(w, i, jit, pick)
                ws == [w EXCEPT !.searched = TRUE,
                                !.new_position = new_position]
                w1 == IF new_position # NoCell
                      THEN [move_agent(ws, i, new_position) EXCEPT
                               !.hh[i].moved_this_step = TRUE,
                               !.hh[i].failed_move_attempts = 0]
                      ELSE
                        LET wf == [ws EXCEPT
                                     !.hh[i].failed_move_attempts = @ + 1]
                        IN  IF wf.hh[i].failed_move_attempts >= SlumLimit
                            THEN convert_to_slum(wf, i)
                            ELSE wf
            IN  [w1 EXCEPT !.hh[i].is_unhappy = TRUE]
        ELSE [w EXCEPT !.hh[i].moved_this_step = FALSE,
                       !.hh[i].is_unhappy = FALSE]

decide_to_move(w, i, jit, pick) ==
    LET me == w.hh[i]
    IN  IF w.error # "none" THEN w
        ELSE IF ~FirstHasQuality(w, me.pos)
          THEN [w EXCEPT !.error = "AttributeError"]
        ELSE IF RLt(FirstQuality(w, me.pos), OfInt(me.income))
          THEN
            LET new_position == find_new_house(w, i, jit, pick)
                ws == [w EXCEPT !.searched = TRUE,
                                !.new_position = new_position]
                w1 == IF new_position # NoCell
                      THEN [move_agent(ws, i, new_position) EXCEPT
                               !.hh[i].moved_this_step = TRUE,
                               !.hh[i].failed_move_attempts = 0]
                      ELSE
                        LET wf == [ws EXCEPT
                                     !.hh[i].failed_move_attempts = @ + 1]
                        IN  IF /\ me.kind = "Immigrant"
                               /\ wf.hh[i].failed_move_attempts >= SlumLimit
                            THEN convert_to_slum(wf, i)
                            ELSE wf
            IN  [w1 EXCEPT !.hh[i].is_unhappy = TRUE]
        ELSE [w EXCEPT !.hh[i].moved_this_step = FALSE,
                       !.hh[i].is_unhappy = FALSE]

\* Resident.step
ResidentStep(w, i, jit, pick) ==
    LET w0 == [w EXCEPT !.hh[i].moved_this_step = FALSE]
        w1 == calculate_utilities(w0, i)
        w2 == decide_to_move(w1, i, jit, pick)
    IN  IF w2.error = "none" /\ w2.hh[i].moved_this_step
        THEN calculate_utilities(w2, i)
        ELSE w2

\* Immigrant.step
ImmigrantStep(w, i, jit, pick) ==
    LET w1 == calculate_utilities(w, i)
        w2 == decide_to_move(w1, i, jit, pick)
    IN  IF w2.error = "none" THEN update_happiness_status(w2, i) ELSE w2

\* --------------------------------------------------------------- state
VARIABLES
    grid,        \* [Cells -> Seq(agent)]: the agents on each cell
    schedule,    \* the agents in model.schedule
    quality,     \* locational_quality of the house created on each cell,
                 \* or of the slum that replaced it
    hh,          \* the attributes of every household slot
    preference,  \* model.preference
    threshold0,  \* the happiness threshold new households are given
    error,       \* "none", or the exception that ended the run
    tick,        \* ticks completed
    phase,       \* "inject" (a tick starts) or "activate" (households run)
    queue,       \* households still to activate in this tick
    activated,   \* households activated so far in this tick
    selection,   \* hh and schedule as they were when the queue was built
    ops,         \* operations applied one by one (OpSpec)
    last,        \* the last operation: its name, its subject, the state
                 \* it started from, its draws and what it computed
    failed_searches  \* per household, the searches of its steps that returned
                 \* no target since its last search that returned one

vars == <<grid, schedule, quality, hh, preference, threshold0, error, tick, phase,
          queue, activated, selection, ops, last, failed_searches>>

Slots == 1 .. MaxResidents + MaxImmigrants

Incomes == {2, 4}
InitQualities == {Zero, OfInt(3)}
InitThresholds == {<<1, 10>>, <<1, 2>>}
Preferences == {Zero, <<1, 2>>, One}
\* the utilities a direct call of update_happiness is given
Utilities == {Zero, <<1, 4>>, <<1, 2>>, One}

NoHousehold ==
    [kind |-> "None", pos |-> NoCell, income |-> 0,
     happiness_threshold |-> Zero, last_utility |-> Zero, utility |-> Zero,
     failed_move_attempts |-> 0, moved_this_step |-> FALSE,
     is_unhappy |-> FALSE]

\* Resident.__init__ / Immigrant.__init__
NewHousehold(kind, pos, happiness_threshold, income) ==
    [kind |-> kind, pos |-> pos, income |-> income,
     happiness_threshold |-> happiness_threshold,
     last_utility |-> Zero, utility |-> Zero,
     failed_move_attempts |-> 0, moved_this_step |-> FALSE,
     is_unhappy |-> FALSE]

\* The program state as one value, with the locals the operations expose.
World ==
    [grid |-> grid, schedule |-> schedule, quality |-> quality, hh |-> hh,
     preference |-> preference, error |-> error,
     capped |-> Zero, searched |-> FALSE, new_position |-> NoCell]

Created(w) == {i \in Slots : w.hh[i].kind # "None"}
Scheduled(w) ==
    {i \in Created(w) : HouseholdAgent(w.hh[i].kind, i) \in w.schedule}

NoOp == [op |-> "Init", who |-> 0, pre |-> <<>>, jit |-> <<>>,
         searched |-> FALSE, target |-> NoCell, capped |-> Zero,
         arg |-> Zero]

\* The k-th cell of a set of cells, in scan order.
RECURSIVE NthCell(_, _)
NthCell(S, k) ==
    LET c == CHOOSE x \in S : \A y \in S : CellIndex(x) <= CellIndex(y)
    IN  IF k = 1 THEN c ELSE NthCell(S \ {c}, k - 1)

\* Model setup: one housing unit on every cell, all of one initial quality,
\* and the residents on distinct cells, every agent in the schedule.
Setup(occupied, income, q0, h0, pref) ==
    /\ hh = [i \in Slots |->
               IF i <= Cardinality(occupied)
               THEN NewHousehold("Resident", NthCell(occupied, i),
                                 h0, income[i])
               ELSE NoHousehold]
    /\ grid = [c \in Cells |->
                 IF c \in occupied
                 THEN <<HouseAgent(c),
                        HouseholdAgent("Resident",
                           CHOOSE i \in 1 .. Cardinality(occupied) :
                               NthCell(occupied, i) = c)>>
                 ELSE <<HouseAgent(c)>>]
    /\ schedule =
           {HouseAgent(c) : c \in Cells}
           \cup {HouseholdAgent("Resident", i) :
                    i \in 1 .. Cardinality(occupied)}
    /\ quality = [k \in 1 .. Width * Height |-> q0]
    /\ preference = pref
    /\ threshold0 = h0
    /\ error = "none"
    /\ tick = 0
    /\ phase = "inject"
    /\ queue = <<>>
    /\ activated = <<>>
    /\ selection = <<>>
    /\ ops = 0
    /\ last = NoOp
    /\ failed_searches = [i \in Slots |-> 0]

Init ==
    \E occupied \in SUBSET Cells, q0 \in InitQualities,
       h0 \in InitThresholds, pref \in Preferences :
      /\ Cardinality(occupied) <= MaxResidents
      /\ \E income \in [1 .. Cardinality(occupied) -> Incomes] :
           Setup(occupied, income, q0, h0, pref)

\* Write a world back to the state.
Becomes(w) ==
    /\ grid' = w.grid
    /\ schedule' = w.schedule
    /\ quality' = w.quality
    /\ hh' = w.hh
    /\ error' = w.error
    /\ preference' = preference
    /\ threshold0' = threshold0

Did(op, who, jit, w, arg) ==
    /\ last' = [op |-> op, who |-> who, pre |-> World, jit |-> jit,
                searched |-> w.searched, target |-> w.new_position,
                capped |-> w.capped, arg |-> arg]
    /\ failed_searches' =
           IF op \in {"ResidentStep", "ImmigrantStep"} /\ w.searched
           THEN [failed_searches EXCEPT
                    ![who] = IF w.new_position # NoCell THEN 0 ELSE @ + 1]
           ELSE failed_searches
\* ------------------------------------------------------------- injection
Immigrants(w) == {i \in Slots : w.hh[i].kind = "Immigrant"}
FreeSlot(w) == CHOOSE i \in Slots \ Created(w) :
                   \A j \in Slots \ Created(w) : i <= j

\* An immigrant arrives on a cell with a housing unit and no household.
seed_immigrant(w, c, happiness_threshold, income) ==
    LET i == FreeSlot(w)
    IN  [w EXCEPT !.hh[i] = NewHousehold("Immigrant", c,
                                       happiness_threshold, income),
                  !.grid[c] = Append(@, HouseholdAgent("Immigrant", i)),
                  !.schedule = @ \cup {HouseholdAgent("Immigrant", i)}]

CanInject ==
    /\ error = "none"
    /\ Cardinality(Immigrants(World)) < MaxImmigrants

InjectInto(c, h, income) ==
    /\ IsCandidate(World, c)
    /\ Becomes(seed_immigrant(World, c, h, income))
    /\ Did("seed_immigrant", FreeSlot(World), <<>>, World, Zero)

\* ------------------------------------------------------------- scheduler
\* (a) every housing unit in the schedule steps
RECURSIVE RunHouseSteps(_, _)
RunHouseSteps(w, k) ==
    IF k = 0 THEN w
    ELSE LET w1 == RunHouseSteps(w, k - 1)
             c == ScanOrder[k]
         IN  IF HouseAgent(c) \in w1.schedule THEN HouseStep(w1, c) ELSE w1

\* (b) the households that are unhappy
Unhappy(w, i) == RLt(w.hh[i].last_utility, w.hh[i].happiness_threshold)
SelectUnhappy(w) == {i \in Scheduled(w) : Unhappy(w, i)}

\* (c) sorted by income, highest first; equal incomes keep schedule order
RECURSIVE SortAscending(_, _)
SortAscending(w, S) ==
    IF S = {} THEN <<>>
    ELSE LET m == CHOOSE i \in S : \A j \in S :
                      \/ w.hh[i].income < w.hh[j].income
                      \/ w.hh[i].income = w.hh[j].income /\ i <= j
         IN  <<m>> \o SortAscending(w, S \ {m})

RECURSIVE SortByIncome(_, _)
SortByIncome(w, S) ==
    IF S = {} THEN <<>>
    ELSE LET m == CHOOSE i \in S : \A j \in S :
                      \/ w.hh[i].income > w.hh[j].income
                      \/ w.hh[i].income = w.hh[j].income /\ i <= j
         IN  <<m>> \o SortByIncome(w, S \ {m})

\* ---------------------------------------------------- actions of a tick
Inject ==
    /\ phase = "inject" /\ tick < MaxTicks
    /\ CanInject
    /\ \E c \in Cells, income \in Incomes :
           InjectInto(c, threshold0, income)
    /\ UNCHANGED <<tick, phase, queue, activated, selection, ops>>

RunHouses ==
    /\ phase = "inject" /\ tick < MaxTicks
    /\ error = "none"
    /\ LET w == RunHouseSteps(World, Width * Height)
       IN  /\ Becomes(w)
           /\ queue' = SortByIncome(w, SelectUnhappy(w))
           /\ selection' = [hh |-> w.hh, schedule |-> w.schedule]
           /\ Did("RunHouses", 0, <<>>, w, Zero)
    /\ activated' = <<>>
    /\ phase' = "activate"
    /\ UNCHANGED <<tick, ops>>

Step(op, i, jit, w) ==
    /\ Becomes(w)
    /\ Did(op, i, jit, w, Zero)

ActivateResident ==
    /\ phase = "activate" /\ queue # <<>> /\ error = "none"
    /\ hh[Head(queue)].kind = "Resident"
    /\ LET i == Head(queue)
       IN  \E jit \in JitterOutcomes(World, i) :
             \E pick \in PickChoices(World, i, jit) :
               Step("ResidentStep", i, jit, ResidentStep(World, i, jit, pick))
    /\ queue' = Tail(queue)
    /\ activated' = Append(activated, Head(queue))
    /\ UNCHANGED <<tick, phase, selection, ops>>

ActivateImmigrant ==
    /\ phase = "activate" /\ queue # <<>> /\ error = "none"
    /\ hh[Head(queue)].kind = "Immigrant"
    /\ LET i == Head(queue)
       IN  \E jit \in JitterOutcomes(World, i) :
             \E pick \in PickChoices(World, i, jit) :
               Step("ImmigrantStep", i, jit,
                    ImmigrantStep(World, i, jit, pick))
    /\ queue' = Tail(queue)
    /\ activated' = Append(activated, Head(queue))
    /\ UNCHANGED <<tick, phase, selection, ops>>

EndTick ==
    /\ phase = "activate" /\ queue = <<>> /\ error = "none"
    /\ tick' = tick + 1
    /\ phase' = "inject"
    /\ UNCHANGED <<grid, schedule, quality, hh, preference, threshold0, error,
                   queue, activated, selection, ops, last,
                   failed_searches>>

Next ==
    \/ Inject
    \/ RunHouses
    \/ ActivateResident
    \/ ActivateImmigrant
    \/ EndTick

Spec == Init /\ [][Next]_vars

\* ------------------------------------- operations applied one at a time
OpFrame == UNCHANGED <<tick, phase, queue, activated, selection>>

OpInject ==
    /\ ops < MaxOps /\ CanInject
    /\ \E c \in Cells, income \in Incomes :
           InjectInto(c, threshold0, income)
    /\ ops' = ops + 1
    /\ OpFrame

OpHouseStep ==
    /\ ops < MaxOps /\ error = "none"
    /\ \E c \in Cells :
         /\ HouseAgent(c) \in schedule
         /\ Becomes(HouseStep(World, c))
         /\ Did("HouseStep", CellIndex(c), <<>>, World, Zero)
    /\ ops' = ops + 1
    /\ OpFrame

OpResidentStep ==
    /\ ops < MaxOps /\ error = "none"
    /\ \E i \in Scheduled(World) :
         /\ hh[i].kind = "Resident"
         /\ \E jit \in JitterOutcomes(World, i) :
              \E pick \in PickChoices(World, i, jit) :
                Step("ResidentStep", i, jit, ResidentStep(World, i, jit, pick))
    /\ ops' = ops + 1
    /\ OpFrame

OpImmigrantStep ==
    /\ ops < MaxOps /\ error = "none"
    /\ \E i \in Scheduled(World) :
         /\ hh[i].kind = "Immigrant"
         /\ \E jit \in JitterOutcomes(World, i) :
              \E pick \in PickChoices(World, i, jit) :
                Step("ImmigrantStep", i, jit,
                     ImmigrantStep(World, i, jit, pick))
    /\ ops' = ops + 1
    /\ OpFrame

OpCalculateUtilities ==
    /\ ops < MaxOps /\ error = "none"
    /\ \E i \in Scheduled(World) :
         Step("calculate_utilities", i, <<>>, calculate_utilities(World, i))
    /\ ops' = ops + 1
    /\ OpFrame

OpNext ==
    \/ OpInject
    \/ OpHouseStep
    \/ OpResidentStep
    \/ OpImmigrantStep
    \/ OpCalculateUtilities

OpSpec == Init /\ [][OpNext]_vars
\* ------------------------------------ update_happiness called repeatedly
\* One household whose threshold starts anywhere in [0, 1], given any
\* sequence of utilities.
ThresholdInputs == {Zero, <<1, 10>>, <<1, 2>>, <<9, 10>>, One}

HappyInit ==
    \E h0 \in ThresholdInputs, pref \in Preferences :
        Setup({ScanOrder[1]}, [i \in {1} |-> 2], Zero, h0, pref)

CallUpdateHappiness ==
    /\ ops < MaxUpdates /\ error = "none"
    /\ \E i \in Scheduled(World), u \in Utilities :
         /\ Becomes(update_happiness(World, i, u))
         /\ Did("update_happiness", i, <<>>, World, u)
    /\ ops' = ops + 1
    /\ OpFrame

HappySpec == HappyInit /\ [][CallUpdateHappiness]_vars
\* ================================================================ claims
\* What the claims talk about, read off the state.
Steps == {"ResidentStep", "ImmigrantStep"}
AfterStep == last.op \in Steps

\* the agents of a class standing on cell c of grid g
OnCell(g, c, kinds) == {g[c][k] : k \in 1 .. Len(g[c])} \cap
                       {[kind |-> kd, id |-> n] :
                           kd \in kinds, n \in 0 .. Width * Height + Cardinality(Slots)}
Households == {"Resident", "Immigrant"}

\* a cell with a housing unit and no household, in grid g
VacantHousing(g, c) ==
    /\ c \in Cells
    /\ OnCell(g, c, {"House"}) # {}
    /\ OnCell(g, c, Households) = {}

\* locational_quality of the housing unit on cell c in world w
QualityAt(w, c) ==
    w.quality[(CHOOSE a \in OnCell(w.grid, c, {"House"}) : TRUE).id]

InUnit(h) == RLe(Zero, h) /\ RLe(h, One)

\* C1: the happiness_threshold of every household stays inside [0, 1] under
\* any sequence of update_happiness calls.
C1_ThresholdStaysInRange ==
    \A i \in Created(World) : InUnit(hh[i].happiness_threshold)

\* C2: find_new_house returns no target or a cell that, when it was called,
\* held a housing unit and no household; never the caller's cell, never a
\* slum cell.
C2_SearchReturnsVacantHousing ==
    (AfterStep /\ last.searched /\ last.target # NoCell) =>
        /\ VacantHousing(last.pre.grid, last.target)
        /\ last.target # last.pre.hh[last.who].pos
        /\ OnCell(last.pre.grid, last.target, {"Slum"}) = {}

\* C2 happens: a search returns a target while another household stands on
\* a housing cell of higher quality than the target.
C2_Witness ==
    /\ AfterStep /\ last.searched /\ last.target # NoCell
    /\ VacantHousing(last.pre.grid, last.target)
    /\ \E c \in Cells :
           /\ c # last.pre.hh[last.who].pos
           /\ OnCell(last.pre.grid, c, Households) # {}
           /\ OnCell(last.pre.grid, c, {"House"}) # {}
           /\ RLt(QualityAt(last.pre, last.target), QualityAt(last.pre, c))

\* C3: at the end of a household's step, moved_this_step is true exactly
\* when that step searched and the search returned a target.
C3_MovedFlagIffMovedThisStep ==
    AfterStep =>
        (hh[last.who].moved_this_step
            <=> (last.searched /\ last.target # NoCell))

\* C4: when an Immigrant's failed search brings failed_move_attempts to 4,
\* the same step removes the Immigrant from the schedule, removes the
\* housing unit of its cell from the schedule and the grid, and places a
\* Slum on its cell.
ReachedLimit ==
    /\ last.op = "ImmigrantStep"
    /\ last.searched /\ last.target = NoCell
    /\ last.pre.hh[last.who].failed_move_attempts = 3

C4_FourthFailureConverts ==
    ReachedLimit =>
        LET pos == last.pre.hh[last.who].pos
            house == CHOOSE a \in OnCell(last.pre.grid, pos, {"House"}) : TRUE
        IN  /\ hh[last.who].failed_move_attempts = 4
            /\ [kind |-> "Immigrant", id |-> last.who] \notin schedule
            /\ house \notin schedule
            /\ \A c \in Cells : house \notin OnCell(grid, c, {"House"})
            /\ OnCell(grid, pos, {"Slum"}) # {}

C4_Witness ==
    /\ ReachedLimit
    /\ OnCell(last.pre.grid, last.pre.hh[last.who].pos, {"House"}) # {}
    /\ [kind |-> "Immigrant", id |-> last.who] \in last.pre.schedule

\* C5: a converted Immigrant stands on no grid cell, and the cell it was
\* converted on holds the Slum and neither a household nor a housing unit.
Converted(i) ==
    /\ hh[i].kind = "Immigrant"
    /\ [kind |-> "Immigrant", id |-> i] \notin schedule

C5_ConvertedImmigrantLeavesGrid ==
    \A i \in Slots :
        Converted(i) =>
            /\ \A c \in Cells :
                   [kind |-> "Immigrant", id |-> i]
                       \notin OnCell(grid, c, Households)
            /\ OnCell(grid, hh[i].pos, Households) = {}
            /\ OnCell(grid, hh[i].pos, {"House"}) = {}
            /\ OnCell(grid, hh[i].pos, {"Slum"}) # {}
\* C6: in a tick the households activated are exactly the unhappy ones (those
\* with last_utility < happiness_threshold when the tick's queue was built),
\* in an order of non-increasing income.
ActivationOrder == activated \o queue

C6_UnhappyByIncomeDescending ==
    phase = "activate" =>
        /\ {ActivationOrder[k] : k \in 1 .. Len(ActivationOrder)} =
               {i \in Slots :
                   /\ selection.hh[i].kind \in Households
                   /\ [kind |-> selection.hh[i].kind, id |-> i]
                          \in selection.schedule
                   /\ RLt(selection.hh[i].last_utility,
                          selection.hh[i].happiness_threshold)}
        /\ \A j, k \in 1 .. Len(ActivationOrder) :
               j < k => hh[ActivationOrder[j]].income
                            >= hh[ActivationOrder[k]].income
        /\ \A j, k \in 1 .. Len(ActivationOrder) :
               j # k => ActivationOrder[j] # ActivationOrder[k]

\* C6 happens: a tick has activated two households of different incomes and
\* left a happy one out.
C6_Witness ==
    /\ phase = "activate" /\ queue = <<>>
    /\ \E j, k \in 1 .. Len(activated) :
           hh[activated[j]].income > hh[activated[k]].income
    /\ \E i \in Slots :
           /\ selection.hh[i].kind \in Households
           /\ [kind |-> selection.hh[i].kind, id |-> i] \in selection.schedule
           /\ \A k \in 1 .. Len(activated) : activated[k] # i

\* C7: find_new_house returns the vacant housing cell of highest quality
\* among those whose jittered quality is below the income, if there is one;
\* otherwise a vacant housing cell with quality >= 0.8 * income, if there is
\* one; otherwise no target.
Passing == {c \in Cells : VacantHousing(last.pre.grid, c) /\ last.jit[c]}
Fallback ==
    {c \in Cells :
        /\ VacantHousing(last.pre.grid, c)
        /\ RLe(RMul(<<8, 10>>, OfInt(last.pre.hh[last.who].income)),
               QualityAt(last.pre, c))}

C7_BestElseFallbackElseNone ==
    (AfterStep /\ last.searched) =>
        IF Passing # {}
        THEN /\ last.target \in Passing
             /\ \A c \in Passing :
                    RLe(QualityAt(last.pre, c), QualityAt(last.pre, last.target))
        ELSE IF Fallback # {}
        THEN last.target \in Fallback
        ELSE last.target = NoCell

\* C7 happens: no cell passes the filter and the fallback set, of more than
\* one cell, gives the target.
C7_Witness ==
    /\ AfterStep /\ last.searched
    /\ Passing = {}
    /\ Cardinality(Fallback) > 1
    /\ last.target \in Fallback

\* C8: the only household is a Resident on a cell whose quality is below its
\* income, every cell has a housing unit: its step ends on another cell,
\* vacant before, with moved_this_step true and failed_move_attempts 0.
LoneResident ==
    /\ last.op = "ResidentStep"
    /\ Created(last.pre) = {last.who}
    /\ \A c \in Cells : OnCell(last.pre.grid, c, {"House"}) # {}
    /\ RLt(QualityAt(last.pre, last.pre.hh[last.who].pos),
           OfInt(last.pre.hh[last.who].income))

AroundHouse(k) ==
    {a \in UNION {OnCell(last.pre.grid, d, Households) :
                     d \in {c \in Cells :
                              /\ CellIndex(c) # k
                              /\ \E e \in Cells :
                                   /\ CellIndex(e) = k
                                   /\ c[1] - e[1] \in -1 .. 1
                                   /\ c[2] - e[2] \in -1 .. 1}} : TRUE}

RECURSIVE TotalIncome(_)
TotalIncome(S) ==
    IF S = {} THEN 0
    ELSE LET a == CHOOSE x \in S : TRUE
         IN  last.pre.hh[a.id].income + TotalIncome(S \ {a})

C9_HouseStepMeanOrUnchanged ==
    last.op = "HouseStep" =>
        /\ error = "none"
        /\ IF AroundHouse(last.who) = {}
           THEN quality[last.who] = last.pre.quality[last.who]
           ELSE quality[last.who][1] * Cardinality(AroundHouse(last.who))
                    = TotalIncome(AroundHouse(last.who)) * quality[last.who][2]
        /\ \A k \in 1 .. Width * Height :
               k # last.who => quality[k] = last.pre.quality[k]

\* C9 happens: a housing unit of positive quality steps with no household
\* around it while a household is on the grid.
C9_Witness ==
    /\ last.op = "HouseStep"
    /\ AroundHouse(last.who) = {}
    /\ Created(last.pre) # {}
    /\ RLt(Zero, last.pre.quality[last.who])

\* C10: when the maximum locational_quality over the housing units is 0,
\* calculate_utilities ends without error and with normalized quality 0.
AllQualitiesZero ==
    \A a \in last.pre.schedule :
        a.kind = "House" => last.pre.quality[a.id] = Zero

C10_ZeroMaximumGivesZeroQuality ==
    (last.op = "calculate_utilities" /\ AllQualitiesZero) =>
        /\ error = "none"
        /\ last.capped = Zero
        /\ hh[last.who].last_utility = hh[last.who].utility
        /\ hh[last.who].kind = "Resident" => hh[last.who].utility = Zero

\* C10 happens: an Immigrant computes its utility while every housing unit
\* has quality 0.
C10_Witness ==
    /\ last.op = "calculate_utilities" /\ AllQualitiesZero
    /\ hh[last.who].kind = "Immigrant"
    /\ error = "none"

\* C11: once a cell holds a Slum it holds that Slum in every later state,
\* with locational_quality 0 and no housing unit, and no relocation puts a
\* household on it.
SlumCells(g) == {c \in Cells : OnCell(g, c, {"Slum"}) # {}}

SlumCellsAreDegenerate ==
    \A c \in SlumCells(grid) :
        /\ quality[CellIndex(c)] = Zero
        /\ OnCell(grid, c, {"House"}) = {}

SlumCellsStay ==
    \A c \in SlumCells(grid) :
        /\ OnCell(grid', c, {"Slum"}) = OnCell(grid, c, {"Slum"})
        /\ OnCell(grid', c, Households) \subseteq OnCell(grid, c, Households)

C11_SlumIsTerminal ==
    /\ []SlumCellsAreDegenerate
    /\ [][SlumCellsStay]_vars
    /\ [](AfterStep => last.target \notin SlumCells(last.pre.grid))

\* C11 happens: a household searches for a new house while a cell holds a
\* Slum.
C11_Witness ==
    /\ AfterStep /\ last.searched
    /\ SlumCells(last.pre.grid) # {}
    /\ SlumCells(grid) # {}

\* C12: at the end of every household step, is_unhappy equals
\* (last_utility < happiness_threshold).
C12_UnhappyFlagAgrees ==
    (AfterStep /\ error = "none") =>
        (hh[last.who].is_unhappy
            <=> RLt(hh[last.who].last_utility,
                    hh[last.who].happiness_threshold))

\* C13: a household step (the only caller of decide_to_move) sets
\* failed_move_attempts to 0 and moves the household to the target when the
\* search returned one, adds exactly 1 when the search was triggered (the
\* quality of its cell was below its income) and returned none, and leaves
\* the counter and the position alone when the trigger did not hold; so the
\* counter equals the number of failed searches since the last move.
Triggered ==
    RLt(QualityAt(last.pre, last.pre.hh[last.who].pos),
        OfInt(last.pre.hh[last.who].income))

C14_OneHouseholdPerCell ==
    /\ \A c \in Cells : Cardinality(OnCell(grid, c, Households)) <= 1
    /\ \A i \in Scheduled(World) :
          /\ [kind |-> hh[i].kind, id |-> i]
                 \in OnCell(grid, hh[i].pos, Households)
          /\ OnCell(grid, hh[i].pos, {"House"}) # {}

\* C14 happens: a household relocates after a Resident activated earlier in
\* the same tick has moved onto a cell of higher quality than its target.
C14_Witness ==
    /\ phase = "activate"
    /\ AfterStep /\ last.searched /\ last.target # NoCell
    /\ \E k \in 1 .. Len(activated) :
          /\ activated[k] # last.who
          /\ hh[activated[k]].kind = "Resident"
          /\ hh[activated[k]].moved_this_step
          /\ OnCell(last.pre.grid, hh[activated[k]].pos, {"House"}) # {}
          /\ RLt(QualityAt(last.pre, last.target),
                 QualityAt(last.pre, hh[activated[k]].pos))

\* C15: the housing-unit updates of a tick give every unit the same
\* locational_quality whatever the order the units step in.
Orders ==
    {o \in [1 .. Width * Height -> 1 .. Width * Height] :
        \A j, k \in 1 .. Width * Height : j # k => o[j] # o[k]}

RECURSIVE RunHouseStepsIn(_, _, _)
RunHouseStepsIn(w, o, k) ==
    IF k = 0 THEN w
    ELSE LET w1 == RunHouseStepsIn(w, o, k - 1)
             c == ScanOrder[o[k]]
         IN  IF HouseAgent(c) \in w1.schedule THEN HouseStep(w1, c) ELSE w1

C15_HouseStepsCommute ==
    last.op = "RunHouses" =>
        \A o \in Orders :
            RunHouseStepsIn(last.pre, o, Width * Height).quality = quality

\* C15 happens: two housing units next to each other both change their
\* quality in the same tick.
C15_Witness ==
    /\ last.op = "RunHouses"
    /\ \E c \in Cells : \E d \in Neighborhood(c) :
          /\ quality[CellIndex(c)] # last.pre.quality[CellIndex(c)]
          /\ quality[CellIndex(d)] # last.pre.quality[CellIndex(d)]
          /\ RLt(Zero, last.pre.quality[CellIndex(c)])

\* C16: a Resident that is not an Immigrant is never removed from the
\* schedule and its cell never becomes a slum, whatever its number of failed
\* searches; every Immigrant still scheduled has failed at most 3 times;
\* and every slum stands where an Immigrant was converted.
C16_OnlyImmigrantsConverted ==
    /\ \A i \in Created(World) :
          hh[i].kind = "Resident" =>
             /\ [kind |-> "Resident", id |-> i] \in schedule
             /\ hh[i].pos \notin SlumCells(grid)
             /\ OnCell(grid, hh[i].pos, {"House"}) # {}
    /\ \A i \in Scheduled(World) :
          hh[i].kind = "Immigrant" => hh[i].failed_move_attempts <= 3
    /\ \A c \in SlumCells(grid) :
          \E i \in Created(World) : Converted(i) /\ hh[i].pos = c

\* C16 happens: a Resident has failed four searches in a row and is still
\* scheduled, on its housing unit.
C16_Witness ==
    /\ last.op = "ResidentStep"
    /\ hh[last.who].failed_move_attempts >= 4
    /\ [kind |-> "Resident", id |-> last.who] \in schedule

Vacant == {c \in Cells : VacantHousing(last.pre.grid, c)}

C18_FailsIffNoVacantUnit ==
    (AfterStep /\ last.searched /\ last.pre.hh[last.who].income > 0) =>
        /\ last.target = NoCell <=> Vacant = {}
        /\ \A c \in Vacant :
              /\ RLt(QualityAt(last.pre, c),
                     RMul(<<9, 10>>, OfInt(last.pre.hh[last.who].income)))
                    => last.jit[c]
              /\ \/ RLt(QualityAt(last.pre, c),
                        RMul(<<9, 10>>, OfInt(last.pre.hh[last.who].income)))
                 \/ c \in Fallback
        /\ (hh[last.who].failed_move_attempts
               > last.pre.hh[last.who].failed_move_attempts) => Vacant = {}
        /\ SlumCells(grid) # SlumCells(last.pre.grid) => Vacant = {}

\* C18 happens: the only vacant housing unit has a quality equal to the
\* income, its jitter test fails, and the search still returns it.
C18_Witness ==
    /\ AfterStep /\ last.searched
    /\ Cardinality(Vacant) = 1
    /\ \A c \in Vacant :
          /\ ~last.jit[c]
          /\ QualityAt(last.pre, c) = OfInt(last.pre.hh[last.who].income)
          /\ last.target = c

\* C19: at the end of a household step, utility and last_utility are the
\* utility calculate_utilities gives for the cell the household stands on at
\* that moment.
UtilityHere(i) == calculate_utilities(World, i).hh[i].utility

C19_UtilityIsOfCurrentCell ==
    (AfterStep /\ error = "none" /\ last.who \in Scheduled(World)) =>
        /\ hh[last.who].utility = UtilityHere(last.who)
        /\ hh[last.who].last_utility = UtilityHere(last.who)

\* C20: with the preference in [0, 1] and no negative locational_quality,
\* calculate_utilities never fails for a scheduled household and the utility
\* it computes lies in [0, 1], as do the normalized quality it used and the
\* in-group fraction.
C20_UtilityInUnitInterval ==
    (InUnit(preference) /\ \A k \in 1 .. Width * Height : RLe(Zero, quality[k]))
    =>  /\ error = "none"
        /\ \A i \in Created(World) :
              /\ InUnit(hh[i].utility)
              /\ InUnit(hh[i].last_utility)
        /\ InUnit(last.capped)
        /\ \A i \in Scheduled(World) :
              /\ InUnit(InGroupInfluence(World, i))
              /\ InUnit(UtilityHere(i))

\* C20 happens: an Immigrant with an Immigrant among its neighbours, on a
\* housing unit below the maximum quality, computes a utility strictly
\* between 0 and 1.
C20_Witness ==
    /\ last.op = "ImmigrantStep" /\ error = "none"
    /\ RLt(Zero, preference) /\ RLt(preference, One)
    /\ RLt(Zero, last.capped) /\ RLt(last.capped, One)
    /\ RLt(Zero, InGroupInfluence(last.pre, last.who))
    /\ RLt(Zero, hh[last.who].utility) /\ RLt(hh[last.who].utility, One)
====
